---- MODULE Spec2Model ----
(***************************************************************************)
(* Model of the inference service of src/src/api.py: the artifacts loaded  *)
(* at start-up, the /predict handler (predict_fraud) and the               *)
(* /predict/batch handler (predict_fraud_batch).                           *)
(*                                                                         *)
(* Numbers.  Scores (classifier probability, anomaly score) are fixed-point*)
(* integers in units of 1/Unit = 0.0001.  The ensemble score is kept in    *)
(* units of 1/(WeightDen*Unit) = 0.00001, so that 0.7*p + 0.3*a is exact   *)
(* and rounding it to 4 decimals is a real rounding.  Wall-clock time is   *)
(* counted in ticks, TicksPerCenti ticks to 0.01 ms; reported times are in *)
(* units of 0.01 ms (2 decimals).  Time of a transaction is in units of    *)
(* 1/TimeDen seconds.                                                      *)
(***************************************************************************)
EXTENDS Integers, Sequences, FiniteSets, TLC

\* ------------------------------------------------------------- bounds
\* longest batch a request carries
MaxBatch == 2
\* the wall clock stops advancing at MaxClock ticks
MaxClock == 4
\* most ticks one handler step takes
MaxTick == 2
\* ticks per 0.01 ms
TicksPerCenti == 3
\* transaction Times run from -MaxTime to MaxTime (in 1/TimeDen s)
MaxTime == 8
\* the artifacts loaded by LoadModels answer from (Levels+1)-point grids
ProbaLevels == 1
IsoLevels == 1
\* the artifacts of ScoreInit answer from grids of GridSteps intervals,
\* each grid point with the Win values on either side of it
GridSteps == 10
Win == 2

\* feature inputs: Times are multiples of FeatTimeStep (in 1/TimeDen s), up
\* to FeatTimeSteps either way; Amounts are multiples of AmountStep cents
FeatTimeStep == 64800
FeatTimeSteps == 3
AmountStep == 50
AmountSteps == 4
\* V1..V28 vectors: the first k <= MaxHead coordinates are +-VMax, the rest 0 or 1
MaxHead == 2
VMax == 4
\* rows of the training dataset besides the row under study
BackgroundRows == 1

\* ---------------------------------------------------- program constants
\* 4 decimals: round(float(ensemble_score), 4)
Unit == 10000
\* the ensemble weights 0.7 and 0.3, in tenths
WeightDen == 10
W_XGB == 7
W_ISO == 3
\* the normalisation range [-0.5, 0.5]
ISO_LO == -5000
ISO_HI == 5000
\* thresholds 0.5 (verdict), 0.8 and 0.5 (tiers), in tenths
FRAUD_T == 5
HIGH_T == 8
MEDIUM_T == 5
\* transaction Time is counted in halves of a second
TimeDen == 2

\* ------------------------------------------------------------ helpers
Max(a, b) == IF a >= b THEN a ELSE b
Min(a, b) == IF a <= b THEN a ELSE b

\* Python's round(): n/d (n >= 0, d > 0) to the nearest integer, ties to even
RoundHalfEven(n, d) ==
    LET q == n \div d
        r == n % d
    IN  IF 2 * r < d THEN q
        ELSE IF 2 * r > d THEN q + 1
        ELSE IF q % 2 = 0 THEN q ELSE q + 1

\* Python's int(): truncation toward zero of x/TimeDen
IntTruncMutFloor(x) == x \div TimeDen
IntTrunc(x) == IF x >= 0 THEN x \div TimeDen ELSE -((-x) \div TimeDen)

\* what a call of an artifact does: it returns v, or it raises
Returns(v) == [ok |-> TRUE, v |-> v]
Raises == [ok |-> FALSE, v |-> 0]

\* ------------------------------------------------------- transactions
\* Two requests' bodies that pass the Transaction schema (Amount >= 0, in
\* cents; Time any float: 1.5 s and -1.5 s).
Txn1 == [Time |-> 3, Amount |-> 14962]
Txn2 == [Time |-> -3, Amount |-> 0]
Transactions == {Txn1, Txn2}
\* A request body the schema refuses: Amount = -1.00.
TxnNeg == [Time |-> 3, Amount |-> -100]
AllTransactions == Transactions \cup {TxnNeg}

\* Amount: float = Field(..., ge=0): what the framework checks of a body
\* before it calls the handler
ValidMutUnchecked(transaction) == TRUE
Valid(transaction) == transaction.Amount >= 0

RECURSIVE SeqsUpTo(_, _)
SeqsUpTo(S, n) ==
    IF n = 0 THEN {<<>>}
    ELSE LET shorter == SeqsUpTo(S, n - 1)
         IN  shorter \cup {Append(s, x) : s \in {t \in shorter : Len(t) = n - 1}, x \in S}
Batches == SeqsUpTo(Transactions, MaxBatch)

\* ------------------------------------------------- the ensemble combiner
\* iso_score = -iso_model.score_samples(df_scaled)[0]
IsoScore(score_samples) == -score_samples

\* iso_score_norm = (iso_score - (-0.5)) / (0.5 - (-0.5)), then
\* max(0, min(1, iso_score_norm))
NormalizeIsoMutNoClip(iso_score) == ((iso_score - ISO_LO) * Unit) \div (ISO_HI - ISO_LO)
NormalizeIso(iso_score) ==
    LET iso_score_norm == ((iso_score - ISO_LO) * Unit) \div (ISO_HI - ISO_LO)
    IN  Max(0, Min(Unit, iso_score_norm))

\* ensemble_score = 0.7 * xgb_proba + 0.3 * iso_score_norm, in 1/(10*Unit)
EnsembleScoreMutSwapped(xgb_proba, iso_score_norm) ==
    W_ISO * xgb_proba + W_XGB * iso_score_norm
EnsembleScoreMutInverted(xgb_proba, iso_score_norm) ==
    W_XGB * xgb_proba + W_ISO * (Unit - iso_score_norm)
EnsembleScore(xgb_proba, iso_score_norm) ==
    W_XGB * xgb_proba + W_ISO * iso_score_norm

\* is_fraud = ensemble_score >= 0.5
IsFraudMutStrict(ensemble_score) == ensemble_score > FRAUD_T * Unit
IsFraud(ensemble_score) == ensemble_score >= FRAUD_T * Unit

\* if ensemble_score >= 0.8: HIGH / elif ensemble_score >= 0.5: MEDIUM / else LOW
RiskLevelMutStrict(ensemble_score) ==
    IF ensemble_score > HIGH_T * Unit THEN "HIGH"
    ELSE IF ensemble_score >= MEDIUM_T * Unit THEN "MEDIUM"
    ELSE "LOW"
RiskLevel(ensemble_score) ==
    IF ensemble_score >= HIGH_T * Unit THEN "HIGH"
    ELSE IF ensemble_score >= MEDIUM_T * Unit THEN "MEDIUM"
    ELSE "LOW"

\* round(x, 4) of a score held in 1/(den*Unit)
Round4MutTruncate(x, den) == x \div den
Round4(x, den) == RoundHalfEven(x, den)
\* round(t, 2) of t = ticks/n ticks, in 0.01 ms
Round2(ticks, n) == RoundHalfEven(ticks, TicksPerCenti * n)

\* --------------------------------------------------------------- state
VARIABLES
    iso_model,   \* the anomaly model: transaction -> Returns(score_samples) or Raises
    xgb_model,   \* the classifier: transaction -> Returns(predict_proba[0, 1]) or Raises
    scaler,      \* the scaler: transaction -> Returns(0) (the scaled frame) or Raises
    clock,       \* time.time(), in ticks
    pc,          \* "boot", "idle", or "batch" (inside predict_fraud_batch's loop)
    request,     \* the request being served, or the last one served
    start_time,  \* predict_fraud_batch's start_time
    results,     \* predict_fraud_batch's results
    locals,      \* the local variables of the last predict_fraud call
    invoked,     \* the batch indices predict_fraud was called on, in call order
    response,    \* the response to the request, once it is served
    df,              \* feature_engineering.py: the training dataset read from the csv
    df_engineered,   \* feature_engineering.py: create_advanced_features(df)
    scaler_columns,  \* feature_engineering.py: the columns the scaler is fitted on
    df_features      \* api.py: engineer_features(transaction_dict)

\* the frames of the two feature-engineering paths
frames == <<df, df_engineered, scaler_columns, df_features>>

vars == <<iso_model, xgb_model, scaler, clock, pc, request, start_time,
          results, locals, invoked, response, frames>>

None == [kind |-> "none"]

\* no frame is built
NoFrames ==
    /\ df = None
    /\ df_engineered = None
    /\ scaler_columns = <<>>
    /\ df_features = None

\* the clock readings a step that starts at `now` can end at
Later(now) == {t \in now..(now + MaxTick) : t <= MaxClock}

\* ------------------------------------------------------- predict_fraud
\* The first step of predict_fraud's try block that raises on `transaction`,
\* or "none": scaler.transform, iso_model.predict/score_samples,
\* xgb_model.predict_proba, in the order the handler calls them.
FailingStep(transaction) ==
    IF ~scaler[transaction].ok THEN "scaler.transform"
    ELSE IF ~iso_model[transaction].ok THEN "iso_model.score_samples"
    ELSE IF ~xgb_model[transaction].ok THEN "xgb_model.predict_proba"
    ELSE "none"

\* The local variables of predict_fraud once the tier is determined.
PredictLocals(transaction) ==
    LET iso_score == IsoScore(iso_model[transaction].v)
        xgb_proba == xgb_model[transaction].v
        iso_score_norm == NormalizeIso(iso_score)
        ensemble_score == EnsembleScore(xgb_proba, iso_score_norm)
    IN  [kind |-> "locals",
         iso_score |-> iso_score,
         xgb_proba |-> xgb_proba,
         iso_score_norm |-> iso_score_norm,
         ensemble_score |-> ensemble_score,
         is_fraud |-> IsFraud(ensemble_score),
         risk_level |-> RiskLevel(ensemble_score)]

\* The dictionary predict_fraud returns.
PredictResult(transaction, l, start, now) ==
    [transaction_id |-> <<"TXN_", IntTrunc(transaction.Time)>>,
     is_fraud |-> l.is_fraud,
     fraud_probability |-> Round4(l.ensemble_score, WeightDen),
     risk_level |-> l.risk_level,
     model_scores |-> [isolation_forest |-> Round4(l.iso_score_norm, 1),
                       xgboost |-> Round4(l.xgb_proba, 1),
                       ensemble |-> Round4(l.ensemble_score, WeightDen)],
     processing_time_ms |-> Round2(now - start, 1),
     timestamp |-> now,
     amount |-> transaction.Amount]

\* raise HTTPException(status_code=500, detail=f"Prediction error: {str(e)}")
HTTPException(cause) ==
    [kind |-> "error", status_code |-> 500, detail |-> <<"Prediction error: ", cause>>]

\* predict_fraud(transaction), entered at `start` and left at `now`: what it
\* returns or raises, and its locals.
PredictFraudMutBestEffort(transaction, start, now) ==
    IF ~scaler[transaction].ok
    THEN [raised |-> TRUE, value |-> HTTPException("scaler.transform"), locals |-> None]
    ELSE LET fixed == [kind |-> "locals", iso_score |-> 0, xgb_proba |-> 0, iso_score_norm |-> 0,
                       ensemble_score |-> 0, is_fraud |-> FALSE, risk_level |-> "LOW"]
             l == IF FailingStep(transaction) = "none"
                  THEN PredictLocals(transaction) ELSE fixed
         IN  [raised |-> FALSE,
              value |-> [kind |-> "result"] @@ PredictResult(transaction, l, start, now),
              locals |-> l]
PredictFraud(transaction, start, now) ==
    IF FailingStep(transaction) # "none"
    THEN [raised |-> TRUE,
          value |-> HTTPException(FailingStep(transaction)),
          locals |-> None]
    ELSE LET l == PredictLocals(transaction)
         IN  [raised |-> FALSE,
              value |-> [kind |-> "result"] @@ PredictResult(transaction, l, start, now),
              locals |-> l]

\* ------------------------------------------------------------ start-up
\* what the loaded classifier and anomaly model can answer
ProbaOutputs == {(k * Unit) \div ProbaLevels : k \in 0..ProbaLevels}
IsoOutputs == {-(ISO_LO + (k * (ISO_HI - ISO_LO)) \div IsoLevels) : k \in 0..IsoLevels}
Answers(S) == {Returns(v) : v \in S} \cup {Raises}

Init ==
    /\ iso_model = None
    /\ xgb_model = None
    /\ scaler = None
    /\ clock = 0
    /\ pc = "boot"
    /\ request = None
    /\ start_time = 0
    /\ results = <<>>
    /\ locals = None
    /\ invoked = <<>>
    /\ response = None
    /\ NoFrames

\* iso_model, xgb_model, scaler = joblib.load(...), before the app serves
LoadModels ==
    /\ pc = "boot"
    /\ iso_model' \in [Transactions -> Answers(IsoOutputs)]
    /\ xgb_model' \in [Transactions -> Answers(ProbaOutputs)]
    /\ scaler' \in [Transactions -> Answers({0})]
    /\ pc' = "idle"
    /\ UNCHANGED <<clock, request, start_time, results, locals, invoked, response>>
    /\ UNCHANGED frames

\* ------------------------------------------------------- POST /predict
PredictRequestMutLearns(transaction) ==
    /\ pc = "idle"
    /\ Valid(transaction)
    /\ \E now \in Later(clock) :
         LET out == PredictFraud(transaction, clock, now)
         IN  /\ clock' = now
             /\ locals' = out.locals
             /\ response' = out.value
    /\ request' = [kind |-> "request", endpoint |-> "/predict", body |-> <<transaction>>]
    /\ invoked' = <<1>>
    /\ xgb_model' = [xgb_model EXCEPT ![transaction] = Returns(Unit)]
    /\ UNCHANGED <<iso_model, scaler, pc, start_time, results>>
    /\ UNCHANGED frames
PredictRequest(transaction) ==
    /\ pc = "idle"
    /\ Valid(transaction)
    /\ \E now \in Later(clock) :
         LET out == PredictFraud(transaction, clock, now)
         IN  /\ clock' = now
             /\ locals' = out.locals
             /\ response' = out.value
    /\ request' = [kind |-> "request", endpoint |-> "/predict", body |-> <<transaction>>]
    /\ invoked' = <<1>>
    /\ UNCHANGED <<iso_model, xgb_model, scaler, pc, start_time, results>>
    /\ UNCHANGED frames

\* ------------------------------------------------- POST /predict/batch
\* start_time = time.time(); results = []
BatchStart(transactions) ==
    /\ pc = "idle"
    /\ \A i \in DOMAIN transactions : Valid(transactions[i])
    /\ pc' = "batch"
    /\ request' = [kind |-> "request", endpoint |-> "/predict/batch", body |-> transactions]
    /\ start_time' = clock
    /\ results' = <<>>
    /\ invoked' = <<>>
    /\ locals' = None
    /\ response' = None
    /\ UNCHANGED <<iso_model, xgb_model, scaler, clock>>
    /\ UNCHANGED frames

\* the index of the transaction the k-th pass of `for txn in transactions` takes
LoopIndexMutReversed(transactions, k) == Len(transactions) + 1 - k
LoopIndex(transactions, k) == k

\* one pass of the loop: result = await predict_fraud(txn); results.append(result)
\* An HTTPException of predict_fraud is not caught: it ends the handler.
BatchStepMutSwallow ==
    /\ pc = "batch"
    /\ Len(invoked) < Len(request.body)
    /\ LET i == Len(invoked) + 1
           txn == request.body[i]
       IN  /\ invoked' = Append(invoked, i)
           /\ \E now \in Later(clock) :
                LET out == PredictFraud(txn, clock, now)
                IN  /\ clock' = now
                    /\ locals' = out.locals
                    /\ results' = IF out.raised THEN results ELSE Append(results, out.value)
           /\ UNCHANGED <<pc, response>>
    /\ UNCHANGED <<iso_model, xgb_model, scaler, request, start_time>>
    /\ UNCHANGED frames
BatchStep ==
    /\ pc = "batch"
    /\ Len(results) < Len(request.body)
    /\ LET i == LoopIndex(request.body, Len(results) + 1)
           txn == request.body[i]
       IN  /\ invoked' = Append(invoked, i)
           /\ \E now \in Later(clock) :
                LET out == PredictFraud(txn, clock, now)
                IN  /\ clock' = now
                    /\ locals' = out.locals
                    /\ IF out.raised
                       THEN /\ response' = out.value
                            /\ results' = <<>>
                            /\ pc' = "idle"
                       ELSE /\ results' = Append(results, out.value)
                            /\ UNCHANGED <<pc, response>>
    /\ UNCHANGED <<iso_model, xgb_model, scaler, request, start_time>>
    /\ UNCHANGED frames

\* sum(1 for r in results if r["is_fraud"])
FraudDetectedMutHighOnly(rs) == Cardinality({i \in DOMAIN rs : rs[i].risk_level = "HIGH"})
FraudDetected(rs) == Cardinality({i \in DOMAIN rs : rs[i].is_fraud})

\* round(processing_time / len(transactions), 2)
AvgProcessingTimeMutOfRounded(processing_time, n) ==
    RoundHalfEven(Round2(processing_time, 1), n)
AvgProcessingTime(processing_time, n) == Round2(processing_time, n)

\* the dictionary predict_fraud_batch returns
BatchResult(transactions, rs, processing_time) ==
    [kind |-> "batch",
     total_transactions |-> Len(transactions),
     fraud_detected |-> FraudDetected(rs),
     total_processing_time_ms |-> Round2(processing_time, 1),
     avg_processing_time_ms |-> AvgProcessingTime(processing_time, Len(transactions)),
     results |-> rs]

\* the exception FastAPI answers with 500 Internal Server Error
Unhandled(exc) == [kind |-> "unhandled", status_code |-> 500, exception |-> exc]

\* after the loop: processing_time = (time.time() - start_time) * 1000; return {...}
BatchFinish ==
    /\ pc = "batch"
    /\ Len(results) = Len(request.body)
    /\ \E now \in Later(clock) :
         /\ clock' = now
         /\ response' = IF Len(request.body) = 0
                        THEN Unhandled("ZeroDivisionError")
                        ELSE BatchResult(request.body, results, now - start_time)
    /\ pc' = "idle"
    /\ results' = <<>>
    /\ UNCHANGED <<iso_model, xgb_model, scaler, request, start_time, locals, invoked>>
    /\ UNCHANGED frames

Next ==
    \/ LoadModels
    \/ \E transaction \in Transactions : PredictRequest(transaction)
    \/ \E transactions \in Batches : BatchStart(transactions)
    \/ BatchStep
    \/ BatchFinish

Spec == Init /\ [][Next]_vars

\* ------------------------------------------- the combiner on fine grids
\* Start-up done, with artifacts that raise nowhere and answer every
\* transaction with one classifier probability and one anomaly score, drawn
\* from grids over [0, 1] and [-1, 1] that hold the values next to each
\* grid point.
Near(S, lo, hi) == {g + d : g \in S, d \in -Win..Win} \cap lo..hi
ScoreProbas == Near({(k * Unit) \div GridSteps : k \in 0..GridSteps}, 0, Unit)
ScoreSamples ==
    Near({(k * Unit) \div GridSteps - Unit : k \in 0..(2 * GridSteps)}, -Unit, Unit)

ScoreInit ==
    /\ iso_model \in {[t \in Transactions |-> Returns(r)] : r \in ScoreSamples}
    /\ xgb_model \in {[t \in Transactions |-> Returns(p)] : p \in ScoreProbas}
    /\ scaler = [t \in Transactions |-> Returns(0)]
    /\ clock = 0
    /\ pc = "idle"
    /\ request = None
    /\ start_time = 0
    /\ results = <<>>
    /\ locals = None
    /\ invoked = <<>>
    /\ response = None
    /\ NoFrames

ScoreNext == PredictRequest(Txn1)

SpecScore == ScoreInit /\ [][ScoreNext]_vars

\* ------------------------------------------------ request validation
\* the 422 the framework answers when a body fails the Transaction schema;
\* the handler is not called
RequestValidationError(field) ==
    [kind |-> "invalid", status_code |-> 422, detail |-> <<field, "greater_than_equal">>]

Reject(endpoint, transactions) ==
    /\ pc = "idle"
    /\ \E i \in DOMAIN transactions : ~Valid(transactions[i])
    /\ request' = [kind |-> "request", endpoint |-> endpoint, body |-> transactions]
    /\ response' = RequestValidationError("Amount")
    /\ invoked' = <<>>
    /\ locals' = None
    /\ UNCHANGED <<iso_model, xgb_model, scaler, clock, pc, start_time, results>>
    /\ UNCHANGED frames

\* Start-up done, with artifacts that raise nowhere and answer every body,
\* valid or not, with one probability and one anomaly score.
ValidInit ==
    /\ iso_model \in {[t \in AllTransactions |-> Returns(r)] : r \in IsoOutputs}
    /\ xgb_model \in {[t \in AllTransactions |-> Returns(p)] : p \in ProbaOutputs}
    /\ scaler = [t \in AllTransactions |-> Returns(0)]
    /\ clock = 0
    /\ pc = "idle"
    /\ request = None
    /\ start_time = 0
    /\ results = <<>>
    /\ locals = None
    /\ invoked = <<>>
    /\ response = None
    /\ NoFrames

AllBatches == SeqsUpTo(AllTransactions, MaxBatch)

ValidNext ==
    \/ \E transaction \in AllTransactions : PredictRequest(transaction)
    \/ \E transaction \in AllTransactions : Reject("/predict", <<transaction>>)
    \/ \E transactions \in AllBatches : BatchStart(transactions)
    \/ \E transactions \in AllBatches : Reject("/predict/batch", transactions)
    \/ BatchStep
    \/ BatchFinish

SpecValid == ValidInit /\ [][ValidNext]_vars

\* ------------------------------------------- transaction identifiers
\* Start-up done, with artifacts that raise nowhere; the bodies take every
\* Time from -MaxTime to MaxTime, whole and fractional, and two Amounts.
TimedTransactions ==
    {[Time |-> t, Amount |-> a] : t \in -MaxTime..MaxTime, a \in {0, 14962}}

TimedInit ==
    /\ iso_model \in {[t \in TimedTransactions |-> Returns(r)] : r \in IsoOutputs}
    /\ xgb_model \in {[t \in TimedTransactions |-> Returns(p)] : p \in ProbaOutputs}
    /\ scaler = [t \in TimedTransactions |-> Returns(0)]
    /\ clock = 0
    /\ pc = "idle"
    /\ request = None
    /\ start_time = 0
    /\ results = <<>>
    /\ locals = None
    /\ invoked = <<>>
    /\ response = None
    /\ NoFrames

TimedNext == \E transaction \in TimedTransactions : PredictRequest(transaction)

SpecTimed == TimedInit /\ [][TimedNext]_vars

\* ================================================== feature engineering
\* Numbers.  Amount is in cents, so Amount % 1 is Amount % CentsPerUnit cents;
\* hour is in units of 1/(SecondsPerHour*TimeDen) hours; a mean is the pair
\* <<sum, count>>; np.sin, np.cos, np.log1p, the square root of the sample
\* variance and products with them are kept as the terms they are applied
\* to, so two values are equal when the same function met the same
\* argument.
CentsPerUnit == 100
SecondsPerHour == 3600
SecondsPerDay == 86400
HoursPerDay == 24
\* v_columns = [f'V{i}' for i in range(1, 29)]
NumV == 28
\* (np.abs(df[v_columns]) > 3)
ExtremeAbove == 3
\* df['amount_percentile'] = 2  # Placeholder
PercentilePlaceholder == 2

v_columns == [i \in 1..NumV |-> "V" \o ToString(i)]
\* transaction.dict(): the fields of Transaction in declaration order
RawColumns == <<"Time">> \o v_columns \o <<"Amount">>
\* the columns of data/creditcard.csv
CsvColumns == RawColumns \o <<"Class">>

Range(f) == {f[i] : i \in DOMAIN f}
RECURSIVE SumOver(_, _)
SumOver(f, S) ==
    IF S = {} THEN 0
    ELSE LET x == CHOOSE y \in S : TRUE IN f[x] + SumOver(f, S \ {x})
MinOf(S) == CHOOSE x \in S : \A y \in S : x <= y
MaxOf(S) == CHOOSE x \in S : \A y \in S : x >= y
\* x / d truncated toward zero: Series.astype(int)
AsInt(x, d) == IF x >= 0 THEN x \div d ELSE -((-x) \div d)

\* a DataFrame: its column labels in order, and its rows (label -> value)
DataFrame(columns, rows) == [kind |-> "frame", columns |-> columns, rows |-> rows]
\* df[name] = values, one value per row: a new label is appended, an
\* existing one keeps its place
SetColumn(frame, name, values) ==
    DataFrame(IF name \in Range(frame.columns) THEN frame.columns
              ELSE Append(frame.columns, name),
              [i \in DOMAIN frame.rows |->
                  [c \in DOMAIN frame.rows[i] \cup {name} |->
                      IF c = name THEN values[i] ELSE frame.rows[i][c]]])
\* df.drop([name], axis=1)
DropColumn(frame, name) ==
    DataFrame(SelectSeq(frame.columns, LAMBDA c : c # name),
              [i \in DOMAIN frame.rows |->
                  [c \in DOMAIN frame.rows[i] \ {name} |-> frame.rows[i][c]]])

\* df[v_columns].mean / std / min / max (axis=1), (np.abs(df[v_columns]) > 3).sum
VValues(row) == {row[v_columns[i]] : i \in 1..NumV}
VSum(row) == SumOver([i \in 1..NumV |-> row[v_columns[i]]], 1..NumV)
VSumSq(row) == SumOver([i \in 1..NumV |-> row[v_columns[i]] * row[v_columns[i]]], 1..NumV)
RowMean(row) == <<VSum(row), NumV>>
RowStd(row) == <<"sqrt", NumV * VSumSq(row) - VSum(row) * VSum(row), NumV * (NumV - 1)>>
RowMin(row) == MinOf(VValues(row))
RowMax(row) == MaxOf(VValues(row))
RowExtremeCount(row) ==
    Cardinality({i \in 1..NumV :
        (IF row[v_columns[i]] >= 0 THEN row[v_columns[i]] ELSE -row[v_columns[i]])
            > ExtremeAbove})

\* --------------------------------------- api.py: engineer_features
\* hour, day, hour_sin, hour_cos
ApiTimeFeaturesMutFloorDay(frame) ==
    LET f1 == SetColumn(frame, "hour",
            [i \in DOMAIN frame.rows |-> LET r == frame.rows[i] IN r["Time"] % (HoursPerDay * SecondsPerHour * TimeDen)])
        f2 == SetColumn(f1, "day",
            [i \in DOMAIN f1.rows |-> LET r == f1.rows[i] IN r["Time"] \div (SecondsPerDay * TimeDen)])
        f3 == SetColumn(f2, "hour_sin",
            [i \in DOMAIN f2.rows |-> LET r == f2.rows[i] IN <<"sin", r["hour"]>>])
    IN  SetColumn(f3, "hour_cos",
            [i \in DOMAIN f3.rows |-> LET r == f3.rows[i] IN <<"cos", r["hour"]>>])
ApiTimeFeatures(frame) ==
    LET f1 == SetColumn(frame, "hour",
            [i \in DOMAIN frame.rows |-> LET r == frame.rows[i] IN r["Time"] % (HoursPerDay * SecondsPerHour * TimeDen)])
        f2 == SetColumn(f1, "day",
            [i \in DOMAIN f1.rows |-> LET r == f1.rows[i] IN AsInt(r["Time"], SecondsPerDay * TimeDen)])
        f3 == SetColumn(f2, "hour_sin",
            [i \in DOMAIN f2.rows |-> LET r == f2.rows[i] IN <<"sin", r["hour"]>>])
    IN  SetColumn(f3, "hour_cos",
            [i \in DOMAIN f3.rows |-> LET r == f3.rows[i] IN <<"cos", r["hour"]>>])

\* amount_log, amount_percentile (placeholder), amount_decimal, is_round_amount
ApiAmountFeaturesMutRoundIfZero(frame) ==
    LET f1 == SetColumn(frame, "amount_log",
            [i \in DOMAIN frame.rows |-> LET r == frame.rows[i] IN <<"log1p", r["Amount"]>>])
        f2 == SetColumn(f1, "amount_percentile",
            [i \in DOMAIN f1.rows |-> LET r == f1.rows[i] IN PercentilePlaceholder])
        f3 == SetColumn(f2, "amount_decimal",
            [i \in DOMAIN f2.rows |-> LET r == f2.rows[i] IN r["Amount"] % CentsPerUnit])
    IN  SetColumn(f3, "is_round_amount",
            [i \in DOMAIN f3.rows |-> LET r == f3.rows[i] IN IF r["Amount"] = 0 THEN 1 ELSE 0])
ApiAmountFeatures(frame) ==
    LET f1 == SetColumn(frame, "amount_log",
            [i \in DOMAIN frame.rows |-> LET r == frame.rows[i] IN <<"log1p", r["Amount"]>>])
        f2 == SetColumn(f1, "amount_percentile",
            [i \in DOMAIN f1.rows |-> LET r == f1.rows[i] IN PercentilePlaceholder])
        f3 == SetColumn(f2, "amount_decimal",
            [i \in DOMAIN f2.rows |-> LET r == f2.rows[i] IN r["Amount"] % CentsPerUnit])
    IN  SetColumn(f3, "is_round_amount",
            [i \in DOMAIN f3.rows |-> LET r == f3.rows[i] IN IF r["Amount"] % CentsPerUnit = 0 THEN 1 ELSE 0])

\* v_mean, v_std, v_min, v_max, v_range, v_extreme_count
ApiStatFeatures(frame) ==
    LET f1 == SetColumn(frame, "v_mean",
            [i \in DOMAIN frame.rows |-> RowMean(frame.rows[i])])
        f2 == SetColumn(f1, "v_std",
            [i \in DOMAIN f1.rows |-> RowStd(f1.rows[i])])
        f3 == SetColumn(f2, "v_min",
            [i \in DOMAIN f2.rows |-> RowMin(f2.rows[i])])
        f4 == SetColumn(f3, "v_max",
            [i \in DOMAIN f3.rows |-> RowMax(f3.rows[i])])
        f5 == SetColumn(f4, "v_range",
            [i \in DOMAIN f4.rows |-> LET r == f4.rows[i] IN r["v_max"] - r["v_min"]])
    IN  SetColumn(f5, "v_extreme_count",
            [i \in DOMAIN f5.rows |-> RowExtremeCount(f5.rows[i])])

\* v1_v2_interaction, v4_amount_interaction
ApiInteractionFeaturesMutOne(frame) ==
    SetColumn(frame, "v1_v2_interaction",
            [i \in DOMAIN frame.rows |-> LET r == frame.rows[i] IN r["V1"] * r["V2"]])
ApiInteractionFeatures(frame) ==
    LET f1 == SetColumn(frame, "v1_v2_interaction",
            [i \in DOMAIN frame.rows |-> LET r == frame.rows[i] IN r["V1"] * r["V2"]])
    IN  SetColumn(f1, "v4_amount_interaction",
            [i \in DOMAIN f1.rows |-> LET r == f1.rows[i] IN <<"mul", r["V4"], r["amount_log"]>>])

\* df = pd.DataFrame([transaction_dict]); ...; return df
engineer_features(transaction_dict) ==
    ApiInteractionFeatures(ApiStatFeatures(ApiAmountFeatures(ApiTimeFeatures(
        DataFrame(RawColumns, <<transaction_dict>>)))))

\* ------------------- feature_engineering.py: create_advanced_features
FeTimeFeatures(frame) ==
    LET f1 == SetColumn(frame, "hour",
            [i \in DOMAIN frame.rows |-> LET r == frame.rows[i] IN r["Time"] % (HoursPerDay * SecondsPerHour * TimeDen)])
        f2 == SetColumn(f1, "day",
            [i \in DOMAIN f1.rows |-> LET r == f1.rows[i] IN AsInt(r["Time"], SecondsPerDay * TimeDen)])
        f3 == SetColumn(f2, "hour_sin",
            [i \in DOMAIN f2.rows |-> LET r == f2.rows[i] IN <<"sin", r["hour"]>>])
    IN  SetColumn(f3, "hour_cos",
            [i \in DOMAIN f3.rows |-> LET r == f3.rows[i] IN <<"cos", r["hour"]>>])

\* the quantile levels [0.25, 0.50, 0.75, 0.90, 0.95], in hundredths
QuantileDen == 100
QuantileLevels == <<25, 50, 75, 90, 95>>
\* the k-th smallest (k from 0) of the Amounts of the frame
OrderStatistic(frame, k) ==
    LET a == [i \in DOMAIN frame.rows |-> frame.rows[i]["Amount"]]
    IN  CHOOSE v \in Range(a) :
            /\ Cardinality({i \in DOMAIN a : a[i] < v}) <= k
            /\ k < Cardinality({i \in DOMAIN a : a[i] <= v})
\* QuantileDen times Series.quantile(q) with linear interpolation
QuantileTimesDen(frame, q) ==
    LET n == Len(frame.rows)
        lo == (q * (n - 1)) \div QuantileDen
        part == (q * (n - 1)) % QuantileDen
        below == OrderStatistic(frame, lo)
    IN  IF part = 0 THEN below * QuantileDen
        ELSE below * QuantileDen + part * (OrderStatistic(frame, lo + 1) - below)
\* sum(x > amount_percentiles)
AmountPercentileMutAtLeast(frame, x) ==
    Cardinality({j \in DOMAIN QuantileLevels :
        x * QuantileDen >= QuantileTimesDen(frame, QuantileLevels[j])})
AmountPercentile(frame, x) ==
    Cardinality({j \in DOMAIN QuantileLevels :
        x * QuantileDen > QuantileTimesDen(frame, QuantileLevels[j])})

FeAmountFeatures(frame) ==
    LET f1 == SetColumn(frame, "amount_log",
            [i \in DOMAIN frame.rows |-> LET r == frame.rows[i] IN <<"log1p", r["Amount"]>>])
        f2 == SetColumn(f1, "amount_percentile",
            [i \in DOMAIN f1.rows |-> LET r == f1.rows[i] IN AmountPercentile(frame, r["Amount"])])
        f3 == SetColumn(f2, "amount_decimal",
            [i \in DOMAIN f2.rows |-> LET r == f2.rows[i] IN r["Amount"] % CentsPerUnit])
    IN  SetColumn(f3, "is_round_amount",
            [i \in DOMAIN f3.rows |-> LET r == f3.rows[i] IN IF r["Amount"] % CentsPerUnit = 0 THEN 1 ELSE 0])

FeStatFeatures(frame) ==
    LET f1 == SetColumn(frame, "v_mean",
            [i \in DOMAIN frame.rows |-> RowMean(frame.rows[i])])
        f2 == SetColumn(f1, "v_std",
            [i \in DOMAIN f1.rows |-> RowStd(f1.rows[i])])
        f3 == SetColumn(f2, "v_min",
            [i \in DOMAIN f2.rows |-> RowMin(f2.rows[i])])
        f4 == SetColumn(f3, "v_max",
            [i \in DOMAIN f3.rows |-> RowMax(f3.rows[i])])
        f5 == SetColumn(f4, "v_range",
            [i \in DOMAIN f4.rows |-> LET r == f4.rows[i] IN r["v_max"] - r["v_min"]])
    IN  SetColumn(f5, "v_extreme_count",
            [i \in DOMAIN f5.rows |-> RowExtremeCount(f5.rows[i])])

FeInteractionFeatures(frame) ==
    LET f1 == SetColumn(frame, "v1_v2_interaction",
            [i \in DOMAIN frame.rows |-> LET r == frame.rows[i] IN r["V1"] * r["V2"]])
    IN  SetColumn(f1, "v4_amount_interaction",
            [i \in DOMAIN f1.rows |-> LET r == f1.rows[i] IN <<"mul", r["V4"], r["amount_log"]>>])

\* df = df.copy(); ...; return df
create_advanced_features(frame) ==
    FeInteractionFeatures(FeStatFeatures(FeAmountFeatures(FeTimeFeatures(frame))))

\* prepare_data_for_modeling: X = df.drop(['Class'], axis=1); the scaler is
\* fitted on a split of X's rows, with X's columns
PrepareColumnsMutKeepClass(frame) == frame.columns
PrepareColumns(frame) == DropColumn(frame, "Class").columns

\* --------------------------------------------- the two paths side by side
\* The dataset holds the transaction under study as its first row, then
\* BackgroundRows rows that differ in Amount; the request carries the same
\* transaction.
FeatTimes == {k * FeatTimeStep : k \in -FeatTimeSteps..FeatTimeSteps}
FeatAmounts == {k * AmountStep : k \in 0..AmountSteps}
BackgroundAmounts == {2 * k * AmountStep : k \in 0..(AmountSteps \div 2)}
FeatVectors ==
    {[i \in 1..NumV |-> IF i <= k THEN a ELSE b] :
        k \in 0..MaxHead, a \in {-VMax, VMax}, b \in {0, 1}}
RawRow(time, v, amount) ==
    [c \in Range(RawColumns) |->
        IF c = "Time" THEN time
        ELSE IF c = "Amount" THEN amount
        ELSE v[CHOOSE i \in 1..NumV : v_columns[i] = c]]
Labelled(row, class) ==
    [c \in Range(CsvColumns) |-> IF c = "Class" THEN class ELSE row[c]]
FeatTransactions ==
    {RawRow(t, v, a) : t \in FeatTimes, v \in FeatVectors, a \in FeatAmounts}
Backgrounds ==
    [1..BackgroundRows ->
        {Labelled(RawRow(0, [i \in 1..NumV |-> 0], a), 0) : a \in BackgroundAmounts}]

FeatInit ==
    /\ iso_model = None
    /\ xgb_model = None
    /\ scaler = None
    /\ clock = 0
    /\ pc = "features"
    /\ \E transaction \in FeatTransactions, background \in Backgrounds :
         /\ request = [kind |-> "request", endpoint |-> "/predict", body |-> <<transaction>>]
         /\ df = DataFrame(CsvColumns, <<Labelled(transaction, 1)>> \o background)
    /\ start_time = 0
    /\ results = <<>>
    /\ locals = None
    /\ invoked = <<>>
    /\ response = None
    /\ df_engineered = None
    /\ scaler_columns = <<>>
    /\ df_features = None

\* feature_engineering.py run as a script: df_engineered =
\* create_advanced_features(df), then prepare_data_for_modeling(df_engineered)
RunFeatureEngineering ==
    /\ pc = "features"
    /\ df_engineered = None
    /\ df_engineered' = create_advanced_features(df)
    /\ scaler_columns' = PrepareColumns(create_advanced_features(df))
    /\ UNCHANGED <<iso_model, xgb_model, scaler, clock, pc, request, start_time,
                   results, locals, invoked, response, df, df_features>>

\* predict_fraud: df_features = engineer_features(transaction_dict)
EngineerFeatures ==
    /\ pc = "features"
    /\ df_features = None
    /\ df_features' = engineer_features(request.body[1])
    /\ UNCHANGED <<iso_model, xgb_model, scaler, clock, pc, request, start_time,
                   results, locals, invoked, response, df, df_engineered, scaler_columns>>

FeatNext == RunFeatureEngineering \/ EngineerFeatures

SpecFeat == FeatInit /\ [][FeatNext]_vars

\* ================================================================ claims
\* a result of predict_fraud is the response / a batch result is the response
Scored == response.kind = "result"
BatchDone == response.kind = "batch"
\* the transaction of the /predict request
Asked == request.body[1]
Abs(x) == IF x >= 0 THEN x ELSE -x
TierRank(t) == IF t = "HIGH" THEN 2 ELSE IF t = "MEDIUM" THEN 1 ELSE 0

\* C1: for every ensemble score s, the tier of the result is HIGH when
\* s >= 0.8, otherwise MEDIUM when s >= 0.5, otherwise LOW; 0.7999 gives
\* MEDIUM, 0.8 HIGH, 0.4999 LOW and 0.5 MEDIUM.
C1_TierPolicy ==
    Scored =>
        LET s == locals.ensemble_score
        IN  /\ response.risk_level =
                 (IF s >= 80000 THEN "HIGH" ELSE IF s >= 50000 THEN "MEDIUM" ELSE "LOW")
            /\ (s = 79990 => response.risk_level = "MEDIUM")
            /\ (s = 80000 => response.risk_level = "HIGH")
            /\ (s = 49990 => response.risk_level = "LOW")
            /\ (s = 50000 => response.risk_level = "MEDIUM")
C1_Witness == Scored /\ locals.ensemble_score = 80000 /\ response.risk_level = "HIGH"

\* C2: in every result, is_fraud is true exactly when the ensemble score is
\* >= 0.5, hence exactly when the tier is MEDIUM or HIGH.
C2_VerdictTier ==
    Scored =>
        /\ response.is_fraud <=> (locals.ensemble_score >= 50000)
        /\ response.is_fraud <=> (response.risk_level \in {"MEDIUM", "HIGH"})
        /\ (~response.is_fraud) <=> (response.risk_level = "LOW")
C2_Witness ==
    Scored /\ locals.ensemble_score = 50000 /\ response.is_fraud
           /\ response.risk_level = "MEDIUM"

\* C3: for p and a in [0,1] the ensemble score is 0.7*p + 0.3*a, whatever the
\* request, and so lies in [0,1].
C3_Ensemble ==
    Scored =>
        LET p == xgb_model[Asked].v
            a == locals.iso_score_norm
        IN  (p \in 0..Unit /\ a \in 0..Unit) =>
                /\ locals.ensemble_score = 7 * p + 3 * a
                /\ locals.ensemble_score \in 0..(10 * Unit)
C3_Witness ==
    Scored /\ xgb_model[Asked].v = Unit /\ locals.iso_score_norm = 0
           /\ locals.ensemble_score = 70000

\* C4: the normalized anomaly score is the raw score r (higher = more
\* anomalous) plus 0.5, clamped to [0,1]: 0 for r <= -0.5, 1 for r >= 0.5.
C4_Normalize ==
    Scored =>
        LET r == locals.iso_score
            a == locals.iso_score_norm
        IN  /\ a = (IF r <= -5000 THEN 0 ELSE IF r >= 5000 THEN Unit ELSE r + 5000)
            /\ a \in 0..Unit
C4_Witness ==
    Scored /\ locals.iso_score > 5000 /\ locals.iso_score_norm = Unit

\* C5: with one input fixed, raising the other never lowers the ensemble
\* score, the verdict or the tier.
C5_Monotone ==
    Scored =>
        LET p == locals.xgb_proba
            a == locals.iso_score_norm
            s == locals.ensemble_score
            NotBelow(s2) ==
                /\ s2 >= s
                /\ response.is_fraud => IsFraud(s2)
                /\ TierRank(RiskLevel(s2)) >= TierRank(response.risk_level)
        IN  /\ \A p2 \in ScoreProbas : p2 >= p => NotBelow(EnsembleScore(p2, a))
            /\ \A a2 \in ScoreProbas : a2 >= a => NotBelow(EnsembleScore(p, a2))
C5_Witness ==
    /\ Scored
    /\ response.risk_level = "LOW"
    /\ \E a2 \in ScoreProbas :
         /\ a2 > locals.iso_score_norm
         /\ RiskLevel(EnsembleScore(locals.xgb_proba, a2)) = "MEDIUM"

\* the request is a batch / a single prediction
IsBatch == request.kind = "request" /\ request.endpoint = "/predict/batch"
IsSingle == request.kind = "request" /\ request.endpoint = "/predict"
\* some call predict_fraud makes on t raises
Fails(t) == ~scaler[t].ok \/ ~iso_model[t].ok \/ ~xgb_model[t].ok
\* the cause of the failure, by the order of the calls
Cause(t) ==
    IF ~scaler[t].ok THEN "scaler.transform"
    ELSE IF ~iso_model[t].ok THEN "iso_model.score_samples"
    ELSE "xgb_model.predict_proba"
\* the fields of a result that do not depend on when it was computed
Scoring(r) ==
    <<r.transaction_id, r.is_fraud, r.fraud_probability, r.risk_level,
      r.model_scores, r.amount>>
ResultFields ==
    {"transaction_id", "is_fraud", "fraud_probability", "risk_level", "model_scores",
     "processing_time_ms", "timestamp", "amount", "results"}

\* C6: a batch whose items all succeed is processed one transaction at a
\* time in input order, and returns one result per input, results[i] being
\* predict's result on transactions[i].
C6_BatchOrder ==
    /\ (pc = "batch") =>
          /\ invoked = [i \in 1..Len(invoked) |-> i]
          /\ Len(results) = Len(invoked)
          /\ \A i \in DOMAIN results :
                Scoring(results[i]) = Scoring(PredictFraud(request.body[i], 0, 0).value)
          /\ \A i \in DOMAIN results : \A j \in DOMAIN results :
                i < j => results[i].timestamp <= results[j].timestamp
    /\ BatchDone =>
          /\ Len(response.results) = Len(request.body)
          /\ invoked = [i \in 1..Len(request.body) |-> i]
          /\ \A i \in DOMAIN response.results :
                Scoring(response.results[i])
                    = Scoring(PredictFraud(request.body[i], 0, 0).value)
          /\ \A i \in DOMAIN response.results : \A j \in DOMAIN response.results :
                i < j => response.results[i].timestamp <= response.results[j].timestamp
C6_Witness ==
    /\ BatchDone
    /\ Len(response.results) = 2
    /\ request.body = <<Txn2, Txn1>>
    /\ response.results[1].transaction_id # response.results[2].transaction_id
    /\ response.results[1].is_fraud # response.results[2].is_fraud

\* C7: in every batch result, total_transactions is the number of input
\* transactions and of results, and fraud_detected is the number of results
\* whose is_fraud is true.
C7_BatchCounts ==
    BatchDone =>
        /\ response.total_transactions = Len(request.body)
        /\ response.total_transactions = Len(response.results)
        /\ response.fraud_detected =
              Cardinality({i \in 1..Len(response.results) : response.results[i].is_fraud = TRUE})
C7_Witness ==
    /\ BatchDone
    /\ response.total_transactions = 2
    /\ response.fraud_detected = 1
    /\ \E i \in DOMAIN response.results : response.results[i].risk_level = "MEDIUM"

\* C8 as stated: the returned avg_processing_time_ms equals the returned
\* total_processing_time_ms divided by N.
C8_AvgIsTotalOverN ==
    BatchDone =>
        response.avg_processing_time_ms * response.total_transactions
            = response.total_processing_time_ms
\* C8, amended: total_processing_time_ms is the elapsed time rounded to 2
\* decimals, avg_processing_time_ms is the elapsed time divided by N rounded
\* to 2 decimals, so N*avg differs from total by at most (N+1)*0.005 ms.
C8_AvgOfElapsed ==
    BatchDone =>
        LET elapsed == clock - start_time
            N == response.total_transactions
            total == response.total_processing_time_ms
            avg == response.avg_processing_time_ms
        IN  /\ N >= 1
            /\ 2 * Abs(total * TicksPerCenti - elapsed) <= TicksPerCenti
            /\ 2 * Abs(avg * TicksPerCenti * N - elapsed) <= TicksPerCenti * N
            /\ 2 * Abs(N * avg - total) <= N + 1
C8_Witness ==
    /\ BatchDone
    /\ response.total_transactions = 2
    /\ response.avg_processing_time_ms * 2 # response.total_processing_time_ms

\* C9: if predict fails for the transaction at index k of a batch, the batch
\* is aborted there: the failure is what the caller gets, no batch result and
\* no partial results are returned, and no transaction after k is scored.
C9_BatchAborts ==
    (IsBatch /\ \E i \in DOMAIN request.body : Fails(request.body[i])) =>
        LET k == CHOOSE i \in DOMAIN request.body :
                    /\ Fails(request.body[i])
                    /\ \A j \in 1..(i - 1) : ~Fails(request.body[j])
        IN  /\ \A i \in DOMAIN invoked : invoked[i] <= k
            /\ Len(invoked) <= k
            /\ response.kind \in {"none", "error"}
            /\ (Len(invoked) = k) <=> (response.kind = "error")
            /\ response.kind = "error" =>
                  /\ pc = "idle"
                  /\ response = [kind |-> "error", status_code |-> 500,
                                 detail |-> <<"Prediction error: ", Cause(request.body[k])>>]
                  /\ DOMAIN response \cap ResultFields = {}
C9_Witness ==
    /\ IsBatch
    /\ Len(request.body) = 2
    /\ Fails(request.body[1])
    /\ ~Fails(request.body[2])
    /\ response.kind = "error"
    /\ invoked = <<1>>

\* C10: if a step of predict fails, predict surfaces one prediction-failure
\* error carrying the underlying cause and returns no result; otherwise it
\* returns a result.
C10_PredictFails ==
    (IsSingle /\ response.kind # "none") =>
        IF Fails(Asked)
        THEN /\ response = [kind |-> "error", status_code |-> 500,
                            detail |-> <<"Prediction error: ", Cause(Asked)>>]
             /\ DOMAIN response \cap ResultFields = {}
             /\ locals = None
        ELSE /\ response.kind = "result"
             /\ Scoring(response) = Scoring(PredictFraud(Asked, 0, 0).value)
C10_Witness ==
    /\ IsSingle
    /\ scaler[Asked].ok
    /\ iso_model[Asked].ok
    /\ ~xgb_model[Asked].ok
    /\ response.kind = "error"
    /\ response.detail = <<"Prediction error: ", "xgb_model.predict_proba">>

\* C11: a transaction with negative Amount is rejected with an invalid-
\* transaction error before predict_fraud (feature engineering, scaler,
\* models) runs on anything of its request, single or batch; no call is made
\* on a transaction whose Amount is < 0, and no Amount is changed.
C11_NegativeRejected ==
    /\ \A i \in DOMAIN invoked : request.body[invoked[i]].Amount >= 0
    /\ (request.kind = "request" /\ \E i \in DOMAIN request.body : request.body[i].Amount < 0) =>
          /\ response = [kind |-> "invalid", status_code |-> 422,
                         detail |-> <<"Amount", "greater_than_equal">>]
          /\ invoked = <<>>
          /\ locals = None
          /\ pc = "idle"
    /\ (IsSingle /\ Scored) => response.amount = Asked.Amount
    /\ BatchDone =>
          \A i \in DOMAIN response.results :
             response.results[i].amount = request.body[i].Amount
C11_Witness ==
    /\ IsBatch
    /\ request.body = <<Txn1, TxnNeg>>
    /\ response.kind = "invalid"
    /\ invoked = <<>>

\* C12 as stated: the transaction_id is "TXN_" followed by floor(Time), for
\* every Time the schema accepts, negative and fractional included.
C12_IdIsFloor ==
    (IsSingle /\ Scored) =>
        LET n == response.transaction_id[2]
        IN  /\ response.transaction_id[1] = "TXN_"
            /\ n * TimeDen <= Asked.Time
            /\ Asked.Time < (n + 1) * TimeDen
\* C12, amended: the transaction_id is "TXN_" followed by Time truncated
\* toward zero: floor(Time) for Time >= 0, and the least integer >= Time for
\* Time < 0; it depends on Time only.
C12_IdIsTruncation ==
    (IsSingle /\ Scored) =>
        LET n == response.transaction_id[2]
        IN  /\ response.transaction_id[1] = "TXN_"
            /\ Len(response.transaction_id) = 2
            /\ Asked.Time >= 0 =>
                  (n * TimeDen <= Asked.Time /\ Asked.Time < (n + 1) * TimeDen)
            /\ Asked.Time < 0 =>
                  ((n - 1) * TimeDen < Asked.Time /\ Asked.Time <= n * TimeDen)
            /\ \A t \in TimedTransactions :
                  t.Time = Asked.Time =>
                     PredictFraud(t, 0, 0).value.transaction_id = response.transaction_id
C12_Witness ==
    /\ IsSingle
    /\ Scored
    /\ Asked.Time < 0
    /\ Asked.Time % TimeDen # 0
    /\ Asked.Amount # 0
    /\ response.transaction_id = <<"TXN_", -1>>

\* the frames are built
Engineered == df_features.kind = "frame"
Trained == df_engineered.kind = "frame"
\* the names engineer_features adds, in order
DerivedNames ==
    <<"hour", "day", "hour_sin", "hour_cos", "amount_log", "amount_percentile",
      "amount_decimal", "is_round_amount", "v_mean", "v_std", "v_min", "v_max",
      "v_range", "v_extreme_count", "v1_v2_interaction", "v4_amount_interaction">>
\* Amount (in cents) has the fractional part d (in cents) and flag r
FractionOf(amount, d, r) ==
    /\ d \in 0..99
    /\ \E whole \in 0..amount : amount = 100 * whole + d
    /\ r \in {0, 1}
    /\ (r = 1) <=> (d = 0)
    /\ (r = 1) <=> (\E whole \in 0..amount : amount = 100 * whole)

\* C13: for Amount >= 0, amount_decimal is Amount mod 1, in [0, 1), and
\* is_round_amount is 1 exactly when Amount has no fractional part, on the
\* inference path and on the training path.
C13_AmountDecimal ==
    /\ Engineered =>
          LET row == df_features.rows[1]
          IN  row["Amount"] >= 0 =>
                 FractionOf(row["Amount"], row["amount_decimal"], row["is_round_amount"])
    /\ Trained =>
          \A i \in DOMAIN df_engineered.rows :
             LET row == df_engineered.rows[i]
             IN  row["Amount"] >= 0 =>
                    FractionOf(row["Amount"], row["amount_decimal"], row["is_round_amount"])
C13_Witness ==
    /\ Engineered
    /\ Trained
    /\ df_features.rows[1]["Amount"] = 150
    /\ df_features.rows[1]["amount_decimal"] = 50
    /\ df_features.rows[1]["is_round_amount"] = 0
    /\ \E i \in DOMAIN df_engineered.rows :
          /\ df_engineered.rows[i]["Amount"] = 200
          /\ df_engineered.rows[i]["is_round_amount"] = 1

\* C14 as stated: the feature vector of engineer_features has exactly 45
\* fields, the 30 raw fields followed by exactly 15 derived fields.
C14_FortyFiveFields ==
    Engineered =>
        /\ Len(df_features.columns) = 45
        /\ SubSeq(df_features.columns, 1, 30) = RawColumns
\* C14, amended: the feature vector has exactly 46 fields, the 30 raw fields
\* (Time, V1..V28, Amount) followed by exactly 16 derived fields.
C14_FortySixFields ==
    Engineered =>
        /\ Len(df_features.columns) = 46
        /\ Len(RawColumns) = 30
        /\ RawColumns[1] = "Time" /\ RawColumns[2] = "V1" /\ RawColumns[29] = "V28"
        /\ RawColumns[30] = "Amount"
        /\ SubSeq(df_features.columns, 1, 30) = RawColumns
        /\ SubSeq(df_features.columns, 31, 46) = DerivedNames
        /\ Cardinality(Range(df_features.columns)) = 46
        /\ DOMAIN df_features.rows[1] = Range(df_features.columns)
C14_Witness ==
    /\ Engineered
    /\ Len(df_features.columns) = 46
    /\ df_features.columns[46] = "v4_amount_interaction"

\* C15: the ordered field names engineer_features hands to the scaler are
\* the ordered columns the scaler was fitted on in training: the columns of
\* create_advanced_features with Class dropped.
C15_SameColumns ==
    (Engineered /\ Trained) =>
        /\ df_features.columns = scaler_columns
        /\ scaler_columns = SelectSeq(df_engineered.columns, LAMBDA c : c # "Class")
        /\ \E i \in DOMAIN df_engineered.columns : df_engineered.columns[i] = "Class"
C15_Witness ==
    /\ Engineered
    /\ Trained
    /\ Len(scaler_columns) = 46
    /\ Len(df_engineered.columns) = 47

\* C17: each derived feature has the same value on the inference path and on
\* the training path, except amount_percentile, which inference fixes to 2
\* and training sets to the number of the dataset's 0.25, 0.50, 0.75, 0.90
\* and 0.95 quantiles that Amount strictly exceeds, a value in 0..5.
C17_SameFeatures ==
    (Engineered /\ Trained) =>
        LET served == df_features.rows[1]
            fitted == df_engineered.rows[1]
        IN  /\ \A c \in Range(RawColumns) : served[c] = fitted[c]
            /\ \A i \in DOMAIN DerivedNames :
                  DerivedNames[i] # "amount_percentile" =>
                     served[DerivedNames[i]] = fitted[DerivedNames[i]]
            /\ served["amount_percentile"] = 2
            /\ \A i \in DOMAIN df_engineered.rows :
                  LET row == df_engineered.rows[i]
                  IN  /\ row["amount_percentile"] \in 0..5
                      /\ row["amount_percentile"] =
                            Cardinality({q \in {25, 50, 75, 90, 95} :
                                row["Amount"] * 100 > QuantileTimesDen(df, q)})
C17_Witness ==
    /\ Engineered
    /\ Trained
    /\ df_features.rows[1]["Time"] < 0
    /\ df_features.rows[1]["day"] = -1
    /\ df_engineered.rows[1]["amount_percentile"] = 5
    /\ df_features.rows[1]["amount_percentile"] = 2

\* the transaction a result is about: the i-th of the request
ResultOf(i) == IF Scored THEN response ELSE response.results[i]
\* what the loaded artifacts make of transaction t, whatever was served before
Alone(t) ==
    LET p == xgb_model[t].v
        r == -iso_model[t].v
        a == IF r <= -5000 THEN 0 ELSE IF r >= 5000 THEN 10000 ELSE r + 5000
        s == 7 * p + 3 * a
    IN  [is_fraud |-> s >= 50000,
         risk_level |-> IF s >= 80000 THEN "HIGH" ELSE IF s >= 50000 THEN "MEDIUM" ELSE "LOW",
         model_scores |-> [isolation_forest |-> a, xgboost |-> p,
                           ensemble |-> RoundHalfEven(s, 10)]]
Loaded == <<iso_model, xgb_model, scaler>>
C18_AgreesWithReported ==
    Scored =>
        /\ (response.risk_level = "HIGH") <=> (response.fraud_probability >= 8000)
        /\ (response.risk_level = "LOW") <=> (response.fraud_probability < 5000)
        /\ response.is_fraud <=> (response.fraud_probability >= 5000)
\* C18, amended: the reported fraud_probability is the ensemble score rounded
\* to 4 decimals (within 0.00005 of it), and tier and verdict come from the
\* unrounded score: HIGH implies fraud_probability >= 0.8 and a
\* fraud_probability > 0.8 implies HIGH; is_fraud implies fraud_probability
\* >= 0.5 and a fraud_probability > 0.5 implies is_fraud; LOW iff not
\* is_fraud.  They can disagree only at a reported 0.8000 or 0.5000.
C18_AgreesUpToRounding ==
    Scored =>
        LET fp == response.fraud_probability
        IN  /\ Abs(10 * fp - locals.ensemble_score) <= 5
            /\ response.model_scores.ensemble = fp
            /\ (response.risk_level = "HIGH") => fp >= 8000
            /\ fp > 8000 => (response.risk_level = "HIGH")
            /\ response.is_fraud => fp >= 5000
            /\ fp > 5000 => response.is_fraud
            /\ (response.risk_level = "LOW") <=> ~response.is_fraud
            /\ (response.risk_level = "LOW") => fp <= 5000
            /\ fp < 5000 => (response.risk_level = "LOW")
C18_Witness ==
    /\ Scored
    /\ locals.ensemble_score = 79996
    /\ response.fraud_probability = 8000
    /\ response.risk_level = "MEDIUM"

\* C19: predict_fraud_batch answers every list of valid transactions none of
\* which fails, the empty list included, with a batch result; for the empty
\* list one with total_transactions = 0, fraud_detected = 0 and no results.
C19_BatchTotal ==
    (IsBatch /\ pc = "idle" /\ \A i \in DOMAIN request.body : ~Fails(request.body[i])) =>
        /\ response.kind = "batch"
        /\ Len(request.body) = 0 =>
              /\ response.total_transactions = 0
              /\ response.fraud_detected = 0
              /\ response.results = <<>>

====
